---- MODULE Spec2Model ----
(***************************************************************************)
(* MedExplain-AI backend: the lab-result analysis core of                  *)
(* backend/services/medical_analyzer.py (class MedicalAnalyzer).           *)
(*                                                                         *)
(* Numbers.  Lab values and reference bounds are decimals with at most     *)
(* three fractional digits; the model keeps them as integers counting      *)
(* thousandths (70 mg/dL is 70000, 5.6 % is 5600).  A deviation is the     *)
(* exact rational (bound - value) / bound * 100; it is compared by         *)
(* cross-multiplication and rounded half-even where the code rounds.       *)
(* A decimal that is not a binary64 value reaches the code as the nearest  *)
(* double; that differs from the decimal only in the outcome of a          *)
(* comparison that the decimal makes an exact tie, so the input grids      *)
(* keep a tier-boundary point only where it is a binary64 value.           *)
(* The health score is accumulated by the code in binary64 arithmetic,     *)
(* where the rounding of each operation is visible in the result; that     *)
(* arithmetic is modelled operation by operation (section "binary64").     *)
(***************************************************************************)
EXTENDS Integers, Sequences, FiniteSets, TLC

VARIABLES lab_data, patient_age, historical_data, patient_info,
          call, raised, result, stamped_at, clock, tables, invocations, kept

\* the arguments a caller holds
arguments == <<lab_data, patient_age, historical_data, patient_info>>

vars == <<arguments, call, raised, result, stamped_at, clock, tables, invocations,
         kept>>

\* Number of thousandths in one unit of a lab value.
Scale == 1000

(***************************************************************************)
(* MedicalAnalyzer.__init__: the static tables.                            *)
(***************************************************************************)
reference_ranges ==
  [ glucose       |-> [min |-> 70000,  max |-> 100000, unit |-> "mg/dL",   category |-> "Metabolic"],
    hba1c         |-> [min |-> 4000,   max |-> 5600,   unit |-> "%",       category |-> "Metabolic"],
    cholesterol   |-> [min |-> 125000, max |-> 200000, unit |-> "mg/dL",   category |-> "Cardiovascular"],
    ldl           |-> [min |-> 0,      max |-> 100000, unit |-> "mg/dL",   category |-> "Cardiovascular"],
    hdl           |-> [min |-> 40000,  max |-> 60000,  unit |-> "mg/dL",   category |-> "Cardiovascular"],
    triglycerides |-> [min |-> 0,      max |-> 150000, unit |-> "mg/dL",   category |-> "Cardiovascular"],
    creatinine    |-> [min |-> 600,    max |-> 1200,   unit |-> "mg/dL",   category |-> "Renal"],
    bun           |-> [min |-> 7000,   max |-> 20000,  unit |-> "mg/dL",   category |-> "Renal"],
    sodium        |-> [min |-> 135000, max |-> 145000, unit |-> "mmol/L",  category |-> "Electrolytes"],
    potassium     |-> [min |-> 3500,   max |-> 5000,   unit |-> "mmol/L",  category |-> "Electrolytes"],
    wbc           |-> [min |-> 4500,   max |-> 11000,  unit |-> "10^3/uL", category |-> "Hematology"],
    hemoglobin    |-> [min |-> 13500,  max |-> 17500,  unit |-> "g/dL",    category |-> "Hematology"],
    platelets     |-> [min |-> 150000, max |-> 450000, unit |-> "10^3/uL", category |-> "Hematology"] ]

TestNames == DOMAIN reference_ranges

status_colors ==
  [ normal     |-> [color |-> "#10B981", text |-> "Normal"],
    borderline |-> [color |-> "#F59E0B", text |-> "Borderline"],
    critical   |-> [color |-> "#EF4444", text |-> "Critical"],
    warning    |-> [color |-> "#F97316", text |-> "Warning"],
    good       |-> [color |-> "#3B82F6", text |-> "Good"] ]

\* self.risk_thresholds (no method reads it); thousandths
risk_thresholds ==
  [ diabetes       |-> [hba1c |-> 6500, glucose_fasting |-> 126000],
    hypertension   |-> [systolic |-> 130000, diastolic |-> 80000],
    hyperlipidemia |-> [ldl |-> 130000, triglycerides |-> 200000],
    kidney_disease |-> [creatinine |-> 1300, bun |-> 25000] ]

(***************************************************************************)
(* A snapshot (lab_data) is a Python dict: a sequence of entries in        *)
(* insertion order with pairwise distinct keys.  An entry's value is a     *)
(* number (numeric = TRUE, value in thousandths) or something else, e.g.   *)
(* a string (numeric = FALSE).                                             *)
(***************************************************************************)
Entry(t, isnum, v) == [test |-> t, numeric |-> isnum, value |-> v]

Keys(d) == {d[i].test : i \in 1..Len(d)}

\* num * 10^ndigits = q * den + r with 0 <= r < den, as <<q, r>>, one
\* decimal digit at a time.
RECURSIVE ScaledDivMod(_, _, _)
ScaledDivMod(num, den, ndigits) ==
  IF ndigits = 0 THEN <<num \div den, num % den>>
  ELSE LET p == ScaledDivMod(num, den, ndigits - 1)
       IN  <<p[1] * 10 + (p[2] * 10) \div den, (p[2] * 10) % den>>

\* Python's round(x, ndigits) for the exact rational x = num / den, den > 0:
\* the nearest multiple of 10^-ndigits, a tie going to the even neighbour.
\* The result counts multiples of 10^-ndigits.
PyRound(num, den, ndigits) ==
  LET p == ScaledDivMod(num, den, ndigits)
      q == p[1]
      r == p[2]
  IN  IF 2 * r < den THEN q
      ELSE IF 2 * r > den THEN q + 1
      ELSE IF q % 2 = 0 THEN q ELSE q + 1

\* The tier thresholds of _get_status_below / _get_status_above, in percent.
CriticalPct == 30
WarningPct == 15

\* _get_status_below: deviation = ((min_val - actual) / min_val) * 100.
\* Reached only with actual < min_val and min_val # 0 (the caller has
\* already divided by min_val).
GetStatusBelowGE(min_val, actual) ==
  IF (min_val - actual) * 100 >= CriticalPct * min_val THEN "critical"
  ELSE IF (min_val - actual) * 100 >= WarningPct * min_val THEN "warning"
  ELSE "borderline"

GetStatusBelowWarningFirst(min_val, actual) ==
  IF (min_val - actual) * 100 > WarningPct * min_val THEN "warning"
  ELSE IF (min_val - actual) * 100 > CriticalPct * min_val THEN "critical"
  ELSE "borderline"

GetStatusBelow(min_val, actual) ==
  IF (min_val - actual) * 100 > CriticalPct * min_val THEN "critical"
  ELSE IF (min_val - actual) * 100 > WarningPct * min_val THEN "warning"
  ELSE "borderline"

\* _get_status_above: deviation = ((actual - max_val) / max_val) * 100.
\* Reached only with actual > max_val >= min_val, and max_val > 0 in the table.
GetStatusAbove(max_val, actual) ==
  IF (actual - max_val) * 100 > CriticalPct * max_val THEN "critical"
  ELSE IF (actual - max_val) * 100 > WarningPct * max_val THEN "warning"
  ELSE "borderline"

\* The status chosen by the if / elif / else of categorize_lab_results.
RangeStatusInclusive(min_val, max_val, test_value) ==
  IF test_value <= min_val THEN GetStatusBelow(min_val, test_value)
  ELSE IF test_value >= max_val THEN GetStatusAbove(max_val, test_value)
  ELSE "normal"

RangeStatus(min_val, max_val, test_value) ==
  IF test_value < min_val THEN GetStatusBelow(min_val, test_value)
  ELSE IF test_value > max_val THEN GetStatusAbove(max_val, test_value)
  ELSE "normal"

\* round(deviation, 2) of the same if / elif / else, counted in hundredths
\* of a percent: the deviation is 100 * diff / bound, so four digits of
\* diff / bound.
DeviationPercent(min_val, max_val, test_value) ==
  IF test_value < min_val THEN PyRound(min_val - test_value, min_val, 4)
  ELSE IF test_value > max_val THEN PyRound(test_value - max_val, max_val, 4)
  ELSE 0

\* _get_interpretation: per-test, per-status text, with a generic fallback.
interpretations ==
  [ glucose |->
      [ normal     |-> "Normal fasting blood glucose level.",
        borderline |-> "Slightly elevated blood glucose. Monitor diet.",
        warning    |-> "High blood glucose. May indicate prediabetes.",
        critical   |-> "Very high blood glucose. Possible diabetes." ],
    hba1c |->
      [ normal     |-> "Good long-term blood sugar control.",
        borderline |-> "Moderate blood sugar control. Lifestyle changes recommended.",
        warning    |-> "Poor blood sugar control. May indicate diabetes.",
        critical   |-> "Very poor blood sugar control. Diabetes likely." ],
    ldl |->
      [ normal     |-> "Optimal LDL cholesterol level.",
        borderline |-> "Borderline high LDL cholesterol.",
        warning    |-> "High LDL cholesterol. Increased heart disease risk.",
        critical   |-> "Very high LDL cholesterol. High heart disease risk." ],
    hdl |->
      [ normal     |-> "Good HDL cholesterol level.",
        borderline |-> "Borderline low HDL cholesterol.",
        warning    |-> "Low HDL cholesterol. Increased heart disease risk.",
        critical   |-> "Very low HDL cholesterol. High heart disease risk." ],
    creatinine |->
      [ normal     |-> "Normal kidney function.",
        borderline |-> "Slightly elevated creatinine. Monitor kidney function.",
        warning    |-> "High creatinine. Possible kidney impairment.",
        critical   |-> "Very high creatinine. Kidney dysfunction likely." ] ]

GetInterpretation(test_name, status) ==
  IF test_name \in DOMAIN interpretations /\ status \in DOMAIN interpretations[test_name]
  THEN interpretations[test_name][status]
  ELSE "Value is " \o status \o " compared to reference range."

(***************************************************************************)
(* categorize_lab_results.  The loop body for one entry either skips the   *)
(* entry (not a number, or no reference range), raises ZeroDivisionError   *)
(* (value below a minimum of 0: the division at line 61), or produces one  *)
(* categorized result.  The method reads self.reference_ranges and        *)
(* self.status_colors as they are when it runs: the variable tables.       *)
(***************************************************************************)
Categorizable(e) == e.numeric /\ e.test \in DOMAIN tables.reference_ranges

DividesByZero(e) ==
  Categorizable(e) /\ e.value < tables.reference_ranges[e.test].min
                   /\ tables.reference_ranges[e.test].min = 0

CategorizeEntry(e) ==
  LET ref     == tables.reference_ranges[e.test]
      colors == tables.status_colors
      min_val == ref.min
      max_val == ref.max
      status  == RangeStatus(min_val, max_val, e.value)
  IN  [ test              |-> e.test,
        value             |-> e.value,
        unit              |-> ref.unit,
        category          |-> ref.category,
        status            |-> status,
        color             |-> IF status \in DOMAIN colors
                              THEN colors[status].color ELSE "#6B7280",
        status_text       |-> IF status \in DOMAIN colors
                              THEN colors[status].text ELSE "Unknown",
        min_reference     |-> min_val,
        max_reference     |-> max_val,
        deviation_percent |-> DeviationPercent(min_val, max_val, e.value),
        interpretation    |-> GetInterpretation(e.test, status) ]

\* The dict built by the loop, in insertion order (keys of a snapshot are
\* distinct, so no entry is overwritten).
RECURSIVE CategorizedUpTo(_, _)
CategorizedUpTo(d, n) ==
  IF n = 0 THEN <<>>
  ELSE IF Categorizable(d[n])
       THEN Append(CategorizedUpTo(d, n - 1), CategorizeEntry(d[n]))
       ELSE CategorizedUpTo(d, n - 1)

CategorizeRaisesKeyError(d) ==
  IF \E i \in 1..Len(d) : d[i].test \notin TestNames THEN "KeyError"
  ELSE IF \E i \in 1..Len(d) : DividesByZero(d[i]) THEN "ZeroDivisionError" ELSE ""

\* The exception the call raises, "" when it returns.
CategorizeRaises(d) ==
  IF \E i \in 1..Len(d) : DividesByZero(d[i]) THEN "ZeroDivisionError" ELSE ""

CategorizeLabResults(d) == CategorizedUpTo(d, Len(d))


(***************************************************************************)
(* binary64.  Every double the health score computes lies within a few     *)
(* units in the last place of a decimal with one fractional digit, so a    *)
(* double x is kept as the pair [tenths |-> n, off |-> d] with             *)
(*        x = n/10 + d * U,   U = 1 / (5 * 2^56),                          *)
(* n and d integers (every double in [2^-4, 2^9) is a multiple of 2^-56,   *)
(* hence of U, and so is n/10 = n * 2^55 * U).  The doubles of the binade  *)
(* [2^e, 2^(e+1)) are the multiples of 2^(e-52) = 5 * 2^(e+4) * U, so with *)
(* k = e + 4 the doubles near n/10 are the offsets d with                  *)
(*        d = -n * 2^55   (mod 5 * 2^k),                                   *)
(* and an exact result is rounded to the nearest of them, a tie going to   *)
(* the one whose significand is even (IEEE 754 roundTiesToEven).           *)
(***************************************************************************)
\* 2^j mod 5
Pow2Mod5(j) == <<1, 2, 4, 3>>[(j % 4) + 1]

\* k = e + 4 for the binade [2^e, 2^(e+1)) holding num/den; a value just
\* below an exact power of two (below = TRUE) lies in the binade under it.
Binade(num, den, below) ==
  LET k == CHOOSE j \in 0..16 : den * 2^j <= 16 * num /\ 16 * num < den * 2^(j + 1)
  IN  IF den * 2^k = 16 * num /\ below THEN k - 1 ELSE k

\* (-mult * 2^exp2) mod (5 * 2^k), for k <= exp2
GridResidue(mult, exp2, k) == 2^k * ((-(mult * Pow2Mod5(exp2 - k))) % 5)

\* The double nearest to the exact value n/10 + d*U.
RoundToDouble(n, d) ==
  IF n = 0 THEN [tenths |-> 0, off |-> 0]
  ELSE
    LET k  == Binade(n, 10, d < 0)
        G  == 5 * 2^k
        r  == (d - GridResidue(n, 55, k)) % G
        lo == d - r
    IN  IF 2 * r < G THEN [tenths |-> n, off |-> lo]
        ELSE IF 2 * r > G THEN [tenths |-> n, off |-> lo + G]
        ELSE IF (lo - GridResidue(n, 55, k + 1)) % (2 * G) = 0
             THEN [tenths |-> n, off |-> lo]
             ELSE [tenths |-> n, off |-> lo + G]

\* A float literal with one fractional digit (0.3 is FloatLiteral(3)).
FloatLiteral(n) == RoundToDouble(n, 0)

\* x + y on floats
FloatAdd(x, y) == RoundToDouble(x.tenths + y.tenths, x.off + y.off)

\* p * w for an int p and a float w
IntTimesFloat(p, w) == RoundToDouble(p * w.tenths, p * w.off)

\* s / t on floats, t > 0.  The quotient is within a few units in the last
\* place of the rational q0 = s.tenths / t.tenths; what the code goes on to
\* do with it (compare it with 85, 70, 50; round it to one decimal) depends
\* on the rounding only when q0 is a multiple of 1/20.  The result is
\*   [num, den, ongrid |-> FALSE]            the quotient behaves as num/den
\*   [num, den, ongrid |-> TRUE, m, off]     the quotient is m/20 + off*U
FloatDiv(s, t) ==
  IF (20 * s.tenths) % t.tenths # 0
  THEN [num |-> s.tenths, den |-> t.tenths, ongrid |-> FALSE, m |-> 0, off |-> 0]
  ELSE
    LET m  == (20 * s.tenths) \div t.tenths
        \* exact quotient = m/20 + (A/B) / (1 + eps) * U, sign(eps) = sign(t.off)
        A  == 20 * s.off - m * t.off
        B  == 2 * t.tenths
        k  == Binade(m, 20, A < 0)
        G  == 5 * 2^k
        r  == (A - GridResidue(m, 54, k) * B) % (G * B)
        lo == (A - r) \div B
        even == IF (lo - GridResidue(m, 54, k + 1)) % (2 * G) = 0 THEN lo ELSE lo + G
        g  == IF 2 * r < G * B THEN lo
              ELSE IF 2 * r > G * B THEN lo + G
              ELSE IF t.off = 0 \/ A = 0 THEN even
              ELSE IF t.off > 0 THEN (IF A > 0 THEN lo ELSE lo + G)
              ELSE (IF A > 0 THEN lo + G ELSE lo)
    IN  [num |-> s.tenths, den |-> t.tenths, ongrid |-> TRUE, m |-> m, off |-> g]

\* The int 0 that avg_score holds when nothing was scored.
IntZero == [num |-> 0, den |-> 1, ongrid |-> TRUE, m |-> 0, off |-> 0]

\* q >= c for an int c
FloatGE(q, c) ==
  IF q.ongrid THEN q.m > 20 * c \/ (q.m = 20 * c /\ q.off >= 0)
  ELSE q.num >= c * q.den

\* round(q, 1), counted in tenths: Python rounds the exact binary value,
\* a tie (the double is exactly x.x5) going to the even digit.
FloatRound1(q) ==
  IF ~q.ongrid THEN PyRound(q.num, q.den, 1)
  ELSE IF q.m % 2 = 0 THEN q.m \div 2
  ELSE IF q.off > 0 THEN (q.m + 1) \div 2
  ELSE IF q.off < 0 THEN (q.m - 1) \div 2
  ELSE IF ((q.m - 1) \div 2) % 2 = 0 THEN (q.m - 1) \div 2 ELSE (q.m + 1) \div 2

(***************************************************************************)
(* calculate_health_score                                                  *)
(***************************************************************************)
\* category weights, in tenths (0.3 is 3)
weights ==
  [ Metabolic |-> 3, Cardiovascular |-> 3, Renal |-> 2, Hematology |-> 1, Electrolytes |-> 1 ]

\* weights.get(category, 0.1)
WeightOf(category) ==
  IF category \in DOMAIN weights THEN weights[category] ELSE 1

status_pointsSwapped ==
  [ normal |-> 100, good |-> 90, borderline |-> 40, warning |-> 70, critical |-> 10 ]

status_pointsTypo ==
  [ normal |-> 1000, good |-> 90, borderline |-> 70, warning |-> 40, critical |-> 10 ]

status_points ==
  [ normal |-> 100, good |-> 90, borderline |-> 70, warning |-> 40, critical |-> 10 ]

\* The results that pass the test at line 179, in the order of the loop.
Scored(categorized) ==
  SelectSeq(categorized, LAMBDA c : c.status \in DOMAIN status_points)

\* (the sum of the whole weight table, 1.0)
TotalWeightFullTable(sc, n) == FloatLiteral(10)

\* total_weight after the loop: 0, then += weight for each scored result.
RECURSIVE TotalWeight(_, _)
TotalWeight(sc, n) ==
  IF n = 0 THEN FloatLiteral(0)
  ELSE FloatAdd(TotalWeight(sc, n - 1), FloatLiteral(WeightOf(sc[n].category)))

\* sum(scores): 0, then + score for each element from left to right; a
\* score is status_points[status] * weight.
RECURSIVE SumScores(_, _)
SumScores(sc, n) ==
  IF n = 0 THEN FloatLiteral(0)
  ELSE FloatAdd(SumScores(sc, n - 1),
                IntTimesFloat(status_points[sc[n].status],
                              FloatLiteral(WeightOf(sc[n].category))))

AvgScore(categorized) ==
  LET sc == Scored(categorized)
  IN  IF Len(sc) > 0
      THEN FloatDiv(SumScores(sc, Len(sc)), TotalWeight(sc, Len(sc)))
      ELSE IntZero

HealthStatus(avg_score) ==
  IF FloatGE(avg_score, 85) THEN [status |-> "Excellent", color |-> "#10B981"]
  ELSE IF FloatGE(avg_score, 70) THEN [status |-> "Good", color |-> "#3B82F6"]
  ELSE IF FloatGE(avg_score, 50) THEN [status |-> "Fair", color |-> "#F59E0B"]
  ELSE [status |-> "Needs Attention", color |-> "#EF4444"]

\* The dict returned for a non-empty snapshot; score counts tenths.
\* (calculated_at, the wall-clock time of the call, is not part of the model.)
HealthScoreOf(categorized) ==
  LET avg_score == AvgScore(categorized)
  IN  [ score              |-> FloatRound1(avg_score),
        status             |-> HealthStatus(avg_score).status,
        status_color       |-> HealthStatus(avg_score).color,
        category_breakdown |-> categorized ]

\* line 166: categorized = self.categorize_lab_results(lab_data)
HealthScoreReport(d) == HealthScoreOf(CategorizeLabResults(d))

CalculateHealthScoreSentinelUnscored(d) ==
  IF CategorizeLabResults(d) = <<>> THEN [score |-> 0, status |-> "Insufficient Data"]
  ELSE HealthScoreReport(d)

CalculateHealthScoreNoSentinel(d) == HealthScoreReport(d)

CalculateHealthScore(d) ==
  IF Len(d) = 0 THEN [score |-> 0, status |-> "Insufficient Data"]
  ELSE HealthScoreReport(d)

\* The exception calculate_health_score raises, "" when it returns.
HealthScoreRaises(d) == IF Len(d) = 0 THEN "" ELSE CategorizeRaises(d)


(***************************************************************************)
(* detect_risk_factors.  The function looks five tests up by key and never *)
(* iterates the snapshot.  Each threshold comparison is between the        *)
(* nearest doubles of two decimals of at most three fractional digits,     *)
(* which compare as the decimals do, so the comparisons are taken on       *)
(* thousandths.  An indicator is the text f"<label>: <value><unit>"; it is *)
(* kept as its three parts.  analyzed_at (a clock reading) is left out of  *)
(* the report.                                                             *)
(***************************************************************************)
Has(d, t) == t \in Keys(d)

\* d[t] for a key t of d
Lookup(d, t) == d[CHOOSE i \in 1..Len(d) : d[i].test = t]

Indicator(label, v, unit) == [label |-> label, value |-> v, unit |-> unit]

Finding(c, lvl, ind, rec) ==
  [condition |-> c, risk_level |-> lvl, indicators |-> ind, recommendations |-> rec]

\* the tests whose values detect_risk_factors compares with a float
RiskNames == {"hba1c", "ldl", "triglycerides", "hdl", "creatinine"}

\* comparing a str with a float raises TypeError
RiskRaises(d) ==
  IF \E i \in 1..Len(d) : d[i].test \in RiskNames /\ ~d[i].numeric
  THEN "TypeError" ELSE ""

DiabetesRiskStrict(d) ==
  IF Has(d, "hba1c") /\ Lookup(d, "hba1c").value > 5700
  THEN <<Finding("Diabetes",
                 IF Lookup(d, "hba1c").value >= 6500 THEN "high" ELSE "moderate",
                 <<Indicator("HbA1c", Lookup(d, "hba1c").value, "%")>>,
                 <<"Consult endocrinologist", "Monitor blood sugar regularly",
                   "Diet and exercise changes">>)>>
  ELSE <<>>

\* lines 215-227: the findings the diabetes check appends to risks
DiabetesRisk(d) ==
  IF Has(d, "hba1c") /\ Lookup(d, "hba1c").value >= 5700
  THEN <<Finding("Diabetes",
                 IF Lookup(d, "hba1c").value >= 6500 THEN "high" ELSE "moderate",
                 <<Indicator("HbA1c", Lookup(d, "hba1c").value, "%")>>,
                 <<"Consult endocrinologist", "Monitor blood sugar regularly",
                   "Diet and exercise changes">>)>>
  ELSE <<>>

CvIndicatorsHdlFirst(d) ==
  (IF Has(d, "hdl") /\ Lookup(d, "hdl").value < 40000
   THEN <<Indicator("HDL", Lookup(d, "hdl").value, " mg/dL")>> ELSE <<>>)
  \o
  (IF Has(d, "ldl") /\ Lookup(d, "ldl").value > 130000
   THEN <<Indicator("LDL", Lookup(d, "ldl").value, " mg/dL")>> ELSE <<>>)
  \o
  (IF Has(d, "triglycerides") /\ Lookup(d, "triglycerides").value > 150000
   THEN <<Indicator("Triglycerides", Lookup(d, "triglycerides").value, " mg/dL")>>
   ELSE <<>>)

\* lines 231-243: cv_indicators after the three sub-checks
CvIndicators(d) ==
  (IF Has(d, "ldl") /\ Lookup(d, "ldl").value > 130000
   THEN <<Indicator("LDL", Lookup(d, "ldl").value, " mg/dL")>> ELSE <<>>)
  \o
  (IF Has(d, "triglycerides") /\ Lookup(d, "triglycerides").value > 150000
   THEN <<Indicator("Triglycerides", Lookup(d, "triglycerides").value, " mg/dL")>>
   ELSE <<>>)
  \o
  (IF Has(d, "hdl") /\ Lookup(d, "hdl").value < 40000
   THEN <<Indicator("HDL", Lookup(d, "hdl").value, " mg/dL")>> ELSE <<>>)

\* lines 229-256: cardiovascular_risk is set exactly when an indicator is
\* appended
CardiovascularRisk(d) ==
  IF CvIndicators(d) # <<>>
  THEN <<Finding("Cardiovascular Disease", "moderate", CvIndicators(d),
                 <<"Cardiology consultation", "Heart-healthy diet",
                   "Regular exercise", "Cholesterol management">>)>>
  ELSE <<>>

KidneyRiskInclusive(d) ==
  IF Has(d, "creatinine") /\ Lookup(d, "creatinine").value >= 1200
  THEN <<Finding("Kidney Disease",
                 IF Lookup(d, "creatinine").value <= 2000 THEN "moderate" ELSE "high",
                 <<Indicator("Creatinine", Lookup(d, "creatinine").value, " mg/dL")>>,
                 <<"Nephrology consultation", "Monitor kidney function",
                   "Stay hydrated", "Avoid NSAIDs">>)>>
  ELSE <<>>

\* lines 258-270
KidneyRisk(d) ==
  IF Has(d, "creatinine") /\ Lookup(d, "creatinine").value > 1200
  THEN <<Finding("Kidney Disease",
                 IF Lookup(d, "creatinine").value <= 2000 THEN "moderate" ELSE "high",
                 <<Indicator("Creatinine", Lookup(d, "creatinine").value, " mg/dL")>>,
                 <<"Nephrology consultation", "Monitor kidney function",
                   "Stay hydrated", "Avoid NSAIDs">>)>>
  ELSE <<>>

RisksBeforeAgeKidneyFirst(d) == KidneyRisk(d) \o DiabetesRisk(d) \o CardiovascularRisk(d)

\* risks as it stands at line 272, before the age adjustment
RisksBeforeAge(d) == DiabetesRisk(d) \o CardiovascularRisk(d) \o KidneyRisk(d)

AgeRecommendation == "Age increases risk - more frequent monitoring needed"

AgeAdjustNever(risks, age) == risks

AgeAdjustPrepends(risks, age) ==
  IF age > 60
  THEN [i \in 1..Len(risks) |->
          IF risks[i].risk_level = "moderate"
          THEN [risks[i] EXCEPT !.risk_level = "high",
                                !.recommendations = <<AgeRecommendation>> \o @]
          ELSE risks[i]]
  ELSE risks

\* lines 272-277
AgeAdjust(risks, age) ==
  IF age > 60
  THEN [i \in 1..Len(risks) |->
          IF risks[i].risk_level = "moderate"
          THEN [risks[i] EXCEPT !.risk_level = "high",
                                !.recommendations = Append(@, AgeRecommendation)]
          ELSE risks[i]]
  ELSE risks

\* Python compares str values lexicographically: "high" < "low" < "moderate"
\* ("h" < "l" < "m").  The position of each level word in that order:
StrOrder == [high |-> 1, low |-> 2, moderate |-> 3]

\* max(levels, default = dflt) of line 282: the first greatest element
RECURSIVE PyMax(_, _)
PyMax(levels, dflt) ==
  IF levels = <<>> THEN dflt
  ELSE IF Len(levels) = 1 THEN levels[1]
  ELSE LET m == PyMax(SubSeq(levels, 1, Len(levels) - 1), dflt)
           x == levels[Len(levels)]
       IN  IF StrOrder[x] > StrOrder[m] THEN x ELSE m

\* lines 279-284: the dict returned for the findings
RiskReport(risks) ==
  [detected_risks |-> risks,
   total_risks |-> Len(risks),
   highest_risk |-> PyMax([i \in 1..Len(risks) |-> risks[i].risk_level], "low")]

DetectRiskFactors(d, age) == RiskReport(AgeAdjust(RisksBeforeAge(d), age))

(***************************************************************************)
(* generate_trend_analysis.  A history is a list of records; a record is a *)
(* dict that may hold a "date" and holds test fields in insertion order    *)
(* (fields).  Dates are strings that the code compares as strings; the     *)
(* model keeps a date as a natural number, the position of the string in   *)
(* that order.  A record without a date gets datetime.now().isoformat(),   *)
(* read once per record: a string after every supplied date, later records *)
(* reading later clocks.  generated_at (a clock reading) is left out of    *)
(* the report.  percent_change is the exact rational                       *)
(* (last - first) / first * 100, compared by cross-multiplication and      *)
(* rounded half-even to one decimal.                                       *)
(***************************************************************************)
HistoryRecord(hasdate, date, fields) ==
  [hasdate |-> hasdate, date |-> date, fields |-> fields]

\* the first clock reading of a call lies after this date
Now == 100

\* line 296: record.get("date", datetime.now().isoformat()) for record i
RecordDate(h, i) == IF h[i].hasdate THEN h[i].date ELSE Now + i

\* lines 297-301: the observations record i contributes, one per field
\* whose value is a number
PointsOf(h, i) ==
  LET num == SelectSeq(h[i].fields, LAMBDA e : e.numeric)
  IN  [j \in 1..Len(num) |->
         [test |-> num[j].test, date |-> RecordDate(h, i), value |-> num[j].value]]

\* lines 295-301: the observations of the first n records, in the order in
\* which the loops append them
RECURSIVE ObservationsUpTo(_, _)
ObservationsUpTo(h, n) ==
  IF n = 0 THEN <<>> ELSE ObservationsUpTo(h, n - 1) \o PointsOf(h, n)

\* the keys of test_data in insertion order: the tests in the order of
\* their first observation
RECURSIVE TestsSeen(_)
TestsSeen(obs) ==
  IF obs = <<>> THEN <<>>
  ELSE LET prev == TestsSeen(SubSeq(obs, 1, Len(obs) - 1))
           t == obs[Len(obs)].test
       IN  IF \E i \in 1..Len(prev) : prev[i] = t THEN prev ELSE Append(prev, t)

\* test_data[t]
DataPoints(obs, t) == SelectSeq(obs, LAMBDA p : p.test = t)

\* s is sorted by date; p goes after every element whose date is not later
InsertByDate(s, p) ==
  LET k == Cardinality({i \in 1..Len(s) : s[i].date <= p.date})
  IN  SubSeq(s, 1, k) \o <<p>> \o SubSeq(s, k + 1, Len(s))

SortedByDateKeepsOrder(ps) == ps

\* line 307: sorted(data_points, key = date), a stable sort
RECURSIVE SortedByDate(_)
SortedByDate(ps) ==
  IF ps = <<>> THEN <<>>
  ELSE InsertByDate(SortedByDate(SubSeq(ps, 1, Len(ps) - 1)), ps[Len(ps)])

\* line 315: percent_change as the rational num / den with den > 0; the
\* int 0 when first_val is 0
PercentChange(first_val, last_val) ==
  IF first_val = 0 THEN [num |-> 0, den |-> 1]
  ELSE IF first_val > 0 THEN [num |-> (last_val - first_val) * 100, den |-> first_val]
  ELSE [num |-> (first_val - last_val) * 100, den |-> -first_val]

Abs(x) == IF x < 0 THEN -x ELSE x

\* lines 318-326
Direction(pc) ==
  IF Abs(pc.num) < 5 * pc.den THEN "stable"
  ELSE IF pc.num > 0 THEN "increasing"
  ELSE "decreasing"

\* the tests for which a rise is shown in red and a fall in green
LowerIsBetter == {"glucose", "ldl", "creatinine"}

TrendColorOnePolarity(test, direction) ==
  IF direction = "stable" THEN "#6B7280"
  ELSE IF direction = "increasing" THEN "#EF4444"
  ELSE "#10B981"

\* lines 318-326
TrendColor(test, direction) ==
  IF direction = "stable" THEN "#6B7280"
  ELSE IF direction = "increasing"
       THEN (IF test \in LowerIsBetter THEN "#EF4444" ELSE "#10B981")
  ELSE (IF test \in LowerIsBetter THEN "#10B981" ELSE "#EF4444")

trend_recommendations ==
  [glucose |->
     [increasing |-> "Blood sugar increasing. Review diet and medication.",
      decreasing |-> "Blood sugar improving. Continue current management.",
      stable |-> "Blood sugar stable. Maintain current regimen."],
   ldl |->
     [increasing |-> "LDL cholesterol rising. Consider diet changes or medication adjustment.",
      decreasing |-> "LDL cholesterol improving. Continue current treatment.",
      stable |-> "LDL cholesterol stable. Maintain current approach."],
   hba1c |->
     [increasing |-> "Long-term blood sugar control worsening. Review diabetes management.",
      decreasing |-> "Blood sugar control improving. Good progress.",
      stable |-> "Blood sugar control stable. Continue monitoring."]]

\* f"Value is {direction}. Discuss with healthcare provider."
DefaultTrendRecommendation(direction) ==
  IF direction = "stable" THEN "Value is stable. Discuss with healthcare provider."
  ELSE IF direction = "increasing"
       THEN "Value is increasing. Discuss with healthcare provider."
  ELSE "Value is decreasing. Discuss with healthcare provider."

GetTrendRecommendation(test_name, direction) ==
  IF test_name \in DOMAIN trend_recommendations
       /\ direction \in DOMAIN trend_recommendations[test_name]
  THEN trend_recommendations[test_name][direction]
  ELSE DefaultTrendRecommendation(direction)

\* lines 306-338: trends[test] from the observations of one test
TrendOf(test, data_points) ==
  LET sorted_data == SortedByDate(data_points)
      first == sorted_data[1]
      last == sorted_data[Len(sorted_data)]
      pc == PercentChange(first.value, last.value)
  IN  [test |-> test,
       direction |-> Direction(pc),
       percent_change |-> PyRound(pc.num, pc.den, 1),
       first_value |-> first.value,
       last_value |-> last.value,
       first_date |-> first.date,
       last_date |-> last.date,
       data_points |-> Len(sorted_data),
       trend_color |-> TrendColor(test, Direction(pc)),
       recommendation |-> GetTrendRecommendation(test, Direction(pc))]

TrendsFromOne(h) ==
  LET obs == ObservationsUpTo(h, Len(h))
      analysed == SelectSeq(TestsSeen(obs), LAMBDA t : Len(DataPoints(obs, t)) >= 1)
  IN  [k \in 1..Len(analysed) |-> TrendOf(analysed[k], DataPoints(obs, analysed[k]))]

\* lines 304-338: the dict trends, in insertion order
Trends(h) ==
  LET obs == ObservationsUpTo(h, Len(h))
      analysed == SelectSeq(TestsSeen(obs), LAMBDA t : Len(DataPoints(obs, t)) >= 2)
  IN  [k \in 1..Len(analysed) |-> TrendOf(analysed[k], DataPoints(obs, analysed[k]))]

InsufficientDataOnlyEmpty(h) == Len(h) < 1

\* line 288
InsufficientData(h) == Len(h) < 2

\* line 343 reads sorted_data, which is assigned only in the loop body of a
\* test with two or more observations
TrendRaises(h) ==
  IF ~InsufficientData(h) /\ Trends(h) = <<>> THEN "UnboundLocalError" ELSE ""

\* what the call returns when it does not raise; analysis_period is the
\* pair of dates that line 343 formats, taken from the sorted_data of the
\* last analysed test
GenerateTrendAnalysis(h) ==
  IF InsufficientData(h)
  THEN [message |-> "Insufficient historical data for trend analysis"]
  ELSE LET trends == Trends(h)
       IN  [trends |-> trends,
            analyzed_tests |-> Len(trends),
            analysis_period |->
              IF trends = <<>> THEN <<>>
              ELSE <<trends[Len(trends)].first_date, trends[Len(trends)].last_date>>]

(***************************************************************************)
(* generate_health_report.  patient_info is None (given = FALSE) or a dict *)
(* (given = TRUE, dict = its items in insertion order).  A recommendation  *)
(* is a text; the texts that _generate_recommendations formats from a      *)
(* categorized result are kept as their parts (kind "follow_up"), the      *)
(* fixed ones as the string itself (kind "text").  The overall assessment  *)
(* is a sentence chosen by the score; it is kept as its tier, the score it *)
(* quotes, and the risk count where the sentence quotes one.  generated_at *)
(* and report_id are clock readings (see stamped_at).                      *)
(***************************************************************************)
InfoItem(k, v) == [key |-> k, value |-> v]

\* patient_info or {}
InfoOrEmpty(info) == IF info.given THEN info.dict ELSE <<>>

\* line 382: patient_info.get("age", 50) if patient_info else 50
ReportAge(info) ==
  IF \E i \in 1..Len(InfoOrEmpty(info)) : info.dict[i].key = "age"
  THEN info.dict[CHOOSE i \in 1..Len(info.dict) : info.dict[i].key = "age"].value
  ELSE 50

TextRec(s) == [kind |-> "text", text |-> s]

\* f"Follow up on {test} ({value} {unit}) - {interpretation}"
FollowUp(c) ==
  [kind |-> "follow_up", test |-> c.test, value |-> c.value, unit |-> c.unit,
   interpretation |-> c.interpretation]

\* lines 407-410: one follow-up per warning or critical result
RECURSIVE FollowUps(_)
FollowUps(categorized) ==
  IF categorized = <<>> THEN <<>>
  ELSE LET rest == FollowUps(SubSeq(categorized, 1, Len(categorized) - 1))
           c == categorized[Len(categorized)]
       IN  IF c.status \in {"warning", "critical"} THEN Append(rest, FollowUp(c)) ELSE rest

\* the recommendations of all findings, in order
RECURSIVE RiskRecommendations(_)
RiskRecommendations(risks) ==
  IF risks = <<>> THEN <<>>
  ELSE RiskRecommendations(SubSeq(risks, 1, Len(risks) - 1))
         \o risks[Len(risks)].recommendations

\* lines 413-416: append each text that is not in the list yet
RECURSIVE AppendNew(_, _)
AppendNew(recs, texts) ==
  IF texts = <<>> THEN recs
  ELSE LET sofar == AppendNew(recs, SubSeq(texts, 1, Len(texts) - 1))
           r == TextRec(texts[Len(texts)])
       IN  IF \E i \in 1..Len(sofar) : sofar[i] = r THEN sofar ELSE Append(sofar, r)

\* _generate_recommendations
GenerateRecommendations(categorized, risk_factors) ==
  AppendNew(FollowUps(categorized), RiskRecommendations(risk_factors.detected_risks))
    \o <<TextRec("Schedule follow-up appointment with primary care physician"),
         TextRec("Maintain healthy diet and regular exercise"),
         TextRec("Monitor any symptoms and report changes to doctor")>>

\* _generate_overall_assessment; score counts tenths.  quoted_risks is
\* <<risk_count>> in the two sentences that quote it.
GenerateOverallAssessment(health_score, risk_factors) ==
  IF health_score.score >= 850
  THEN [tier |-> "Excellent", score |-> health_score.score, quoted_risks |-> <<>>]
  ELSE IF health_score.score >= 700
  THEN [tier |-> "Good", score |-> health_score.score, quoted_risks |-> <<>>]
  ELSE IF health_score.score >= 500
  THEN [tier |-> "Fair", score |-> health_score.score,
        quoted_risks |-> <<risk_factors.total_risks>>]
  ELSE [tier |-> "needs attention", score |-> health_score.score,
        quoted_risks |-> <<risk_factors.total_risks>>]

\* The exception generate_health_report raises, "" when it returns: that of
\* categorize_lab_results (line 376), else that of detect_risk_factors
\* (line 383).
ReportRaises(d) ==
  IF CategorizeRaises(d) # "" THEN CategorizeRaises(d) ELSE RiskRaises(d)

GenerateHealthReport(d, info) ==
  LET categorized == CategorizeLabResults(d)
      health_score == CalculateHealthScore(d)
      risk_factors == DetectRiskFactors(d, ReportAge(info))
  IN  [patient_info |-> InfoOrEmpty(info),
       lab_results |-> categorized,
       health_score |-> health_score,
       risk_factors |-> risk_factors,
       recommendations |-> GenerateRecommendations(categorized, risk_factors),
       overall_assessment |-> GenerateOverallAssessment(health_score, risk_factors)]

(***************************************************************************)
(* Inputs.  Values are placed relative to the bounds of each test: below   *)
(* the minimum, on the bounds, above the maximum, on and next to the tier  *)
(* boundaries.                                                             *)
(***************************************************************************)
\* the longest snapshot of the categorizer runs (fine value grid)
MaxFineTests == 1
\* the longest snapshot of the scoring runs (one value per status)
MaxTests == 2
\* the longest snapshot of the insertion-order runs
MaxOrderTests == 3

UnknownNames == {"bmi"}
AllNames == TestNames \cup UnknownNames

\* p percent of the bound b
Pct(b, p) == (b * p) \div 100

\* v is a binary64 value: a multiple of 1/8
IsBinary64(v) == v % 125 = 0

\* the deviation of v from the range of test t is exactly a tier threshold
OnTierBoundary(t, v) ==
  LET ref == reference_ranges[t]
  IN  \E th \in {WarningPct, CriticalPct} :
        \/ v < ref.min /\ (ref.min - v) * 100 = th * ref.min
        \/ v > ref.max /\ (v - ref.max) * 100 = th * ref.max

BelowPcts == {69, 70, 84, 85, 100}
AbovePcts == {100, 115, 116, 130, 131}
StatusPcts == {100, 110, 120, 150}

\* a value below a minimum of 0, in thousandths
Negative == -Scale

GridValues(t, below, above) ==
  IF t \in TestNames
  THEN LET ref == reference_ranges[t]
           all == {Pct(ref.min, p) : p \in below} \cup {Pct(ref.max, p) : p \in above}
                    \cup (IF ref.min = 0 THEN {Negative} ELSE {})
       IN  {v \in all : OnTierBoundary(t, v) => IsBinary64(v)}
  ELSE {22500}

FineEntries ==
  {Entry(t, FALSE, 0) : t \in AllNames} \cup
  UNION {{Entry(t, TRUE, v) : v \in GridValues(t, BelowPcts, AbovePcts)} : t \in AllNames}

CoarseEntries ==
  {Entry(t, FALSE, 0) : t \in UnknownNames} \cup
  UNION {{Entry(t, TRUE, v) : v \in GridValues(t, {}, StatusPcts)} : t \in AllNames}

\* Inputs of the monotonicity runs: one or two tests of each weight, and an
\* unrecognized key, with one value per status.
MonoNames == {"glucose", "hba1c", "ldl", "hdl", "creatinine", "wbc", "sodium"} \cup UnknownNames

MonoEntries == {e \in CoarseEntries : e.test \in MonoNames}

\* the longest snapshot of the monotonicity runs
MaxMonoTests == 2

\* the longest snapshot of the report runs
MaxReportTests == 2

\* the snapshots of exactly n entries drawn from E: the keys of a dict are
\* pairwise distinct
SnapshotsOfLen(E, n) ==
  {d \in [1..n -> E] : \A i, j \in 1..n : i < j => d[i].test # d[j].test}

\* Risk-detector inputs.  The values of each test lie on and next to the
\* thresholds of detect_risk_factors; "bmi" is a key the function never
\* looks up.  ldl and triglycerides also take a value below their reference
\* minimum of 0.
RiskValues ==
  [hba1c |-> {5600, 5700, 6400, 6500},
   ldl |-> {Negative, 130000, 130001},
   triglycerides |-> {Negative, 150000, 150001},
   hdl |-> {39999, 40000},
   creatinine |-> {1200, 1201, 2000, 2001},
   bmi |-> {22500}]

\* what a snapshot can hold for test t: nothing, a number, or a non-number
RiskOptions(t) ==
  {<<>>, <<Entry(t, FALSE, 0)>>} \cup {<<Entry(t, TRUE, v)>> : v \in RiskValues[t]}

\* detect_risk_factors(self, lab_data, patient_age = 50)
DefaultAge == 50

\* the oldest patient of the risk-detector runs
MaxAge == 61

\* the default age, the threshold age 60 and the ages above it
RiskAges == {DefaultAge} \cup 60..MaxAge

\* Trend inputs.  glucose is a test whose rise is shown in red, hdl one
\* whose rise is shown in green.  From 100 the value 104.96 is a change of
\* 4.96 percent and 105 one of exactly 5 percent; 0 is the guarded divisor.
TrendValues ==
  [glucose |-> {0, 100000, 104960, 105000},
   hdl |-> {40000, 50000}]

\* what a record can hold for test t: nothing, or one of its values
TrendOptions(t) == {<<>>} \cup {<<Entry(t, TRUE, v)>> : v \in TrendValues[t]}

\* the supplied dates
TrendDates == {1, 2}

\* a record: with or without a date, a glucose field or none, and an hdl
\* field that is a number, a string, or absent
TrendRecords ==
  {HistoryRecord(dt[1], dt[2], a \o b) :
     dt \in {<<FALSE, 0>>} \cup {<<TRUE, x>> : x \in TrendDates},
     a \in TrendOptions("glucose"),
     b \in TrendOptions("hdl") \cup {<<Entry("hdl", FALSE, 0)>>}}

\* the longest history of the trend runs
MaxRecords == 2

\* Inputs of the analysis-period runs: three dates and one value per test,
\* so that two tests can be observed over different periods.
PeriodDates == {1, 2, 3}

PeriodRecords ==
  {HistoryRecord(TRUE, x, a \o b) :
     x \in PeriodDates,
     a \in {<<>>, <<Entry("glucose", TRUE, 100000)>>},
     b \in {<<>>, <<Entry("hdl", TRUE, 40000)>>}}

\* the longest history of the analysis-period runs
MaxPeriodRecords == 3

(***************************************************************************)
(* The analyzer as a state machine: a caller holds a snapshot and calls    *)
(* the operations on it; call, raised and result are the last call, the    *)
(* exception it raised ("" when it returned) and what it returned.         *)
(* patient_age and historical_data are the other arguments the caller      *)
(* holds: the age passed to detect_risk_factors and the list of records    *)
(* passed to generate_trend_analysis; patient_info is the dict (or None)   *)
(* passed to generate_health_report.                                       *)
(* clock is the wall clock that datetime.now() reads.  The timestamp a     *)
(* result carries (calculated_at, analyzed_at, generated_at) is kept       *)
(* beside the result, in stamped_at: <<t>> for a result stamped at time t, *)
(* <<>> for a result without a timestamp.                                  *)
(* tables holds the attributes that __init__ sets on the analyzer, and     *)
(* invocations the calls that several callers have in progress on it at    *)
(* the same time (section "Concurrent callers").  kept is what the caller  *)
(* has put aside: for each operation, the first outcome it kept of it.     *)
(***************************************************************************)
NoResult == <<>>

NoStamp == <<>>

\* patient_info = None
NoInfo == [given |-> FALSE, dict |-> <<>>]

Operations ==
  {"categorize_lab_results", "calculate_health_score", "detect_risk_factors",
   "generate_trend_analysis", "generate_health_report"}

\* the caller has kept no outcome
NothingKept == [op \in Operations |-> <<>>]

\* lines 16-47: the attributes of a constructed analyzer
AnalyzerTables ==
  [reference_ranges |-> reference_ranges,
   risk_thresholds |-> risk_thresholds,
   status_colors |-> status_colors]

\* no call has been made and the clock stands at its first reading
NotCalled ==
  /\ call = "none"
  /\ raised = ""
  /\ result = NoResult
  /\ stamped_at = NoStamp
  /\ clock = 0
  /\ kept = NothingKept

\* a constructed analyzer with no invocation in progress
Constructed ==
  /\ tables = AnalyzerTables
  /\ invocations = <<>>

\* what a call made by the single caller leaves alone
untouched == <<arguments, clock, tables, invocations, kept>>

(***************************************************************************)
(* Concurrent callers.  The routers call one analyzer, created when the    *)
(* module is loaded, from every request.  An invocation is one call in     *)
(* progress: the operation, its arguments, and the local variables of the  *)
(* call -- pc, the place it has reached, and acc, the dict or list it is   *)
(* building (categorized; risks).  For categorize_lab_results and          *)
(* calculate_health_score, pc is the index of the next item of lab_data    *)
(* that the loop of categorize_lab_results takes; for detect_risk_factors  *)
(* pc = 1 before the findings are collected and pc = 2 before the age      *)
(* adjustment.  A step of an invocation reads the tables as they are at    *)
(* that moment, and steps of different invocations interleave in any       *)
(* order.  outcome is what the finished call raised and returned; the      *)
(* timestamp of a result is left out.  overlapped records that the         *)
(* invocation took a step while another one was in progress.               *)
(***************************************************************************)
Request(op, d, age) == [op |-> op, lab_data |-> d, patient_age |-> age]

Invoke(r) ==
  [op |-> r.op, lab_data |-> r.lab_data, patient_age |-> r.patient_age,
   pc |-> 1, acc |-> <<>>, done |-> FALSE, raised |-> "", result |-> NoResult,
   overlapped |-> FALSE]

InProgress(inv) == ~inv.done /\ inv.pc > 1

\* invocation c takes a step that leaves it as new
Advance(c, new) ==
  invocations' =
    [invocations EXCEPT
       ![c] = [new EXCEPT !.overlapped =
                 @ \/ \E o \in DOMAIN invocations \ {c} : InProgress(invocations[o])]]

Raise(inv, exception) == [inv EXCEPT !.done = TRUE, !.raised = exception]

Return(inv, value) == [inv EXCEPT !.done = TRUE, !.result = value]

\* lines 53-81: one pass of the loop of categorize_lab_results, made for
\* the caller of categorize_lab_results or of calculate_health_score
CategorizeStepSharedDict(c) ==
  LET inv == invocations[c]
      e == inv.lab_data[inv.pc]
  IN  /\ inv.op \in {"categorize_lab_results", "calculate_health_score"}
      /\ ~inv.done
      /\ inv.pc <= Len(inv.lab_data)
      /\ IF ~Categorizable(e) THEN Advance(c, [inv EXCEPT !.pc = @ + 1])
         ELSE IF DividesByZero(e) THEN Advance(c, Raise(inv, "ZeroDivisionError"))
         ELSE invocations' =
                [o \in DOMAIN invocations |->
                   IF o = c
                   THEN [inv EXCEPT !.pc = @ + 1, !.acc = Append(@, CategorizeEntry(e))]
                   ELSE IF invocations[o].op = inv.op /\ ~invocations[o].done
                   THEN [invocations[o] EXCEPT !.acc = Append(@, CategorizeEntry(e))]
                   ELSE invocations[o]]
      /\ UNCHANGED <<arguments, call, raised, result, stamped_at, clock, tables, kept>>

CategorizeStep(c) ==
  LET inv == invocations[c]
      e == inv.lab_data[inv.pc]
  IN  /\ inv.op \in {"categorize_lab_results", "calculate_health_score"}
      /\ ~inv.done
      /\ inv.pc <= Len(inv.lab_data)
      /\ IF ~Categorizable(e) THEN Advance(c, [inv EXCEPT !.pc = @ + 1])
         ELSE IF DividesByZero(e) THEN Advance(c, Raise(inv, "ZeroDivisionError"))
         ELSE Advance(c, [inv EXCEPT !.pc = @ + 1,
                                     !.acc = Append(@, CategorizeEntry(e))])
      /\ UNCHANGED <<arguments, call, raised, result, stamped_at, clock, tables, kept>>

\* line 83: return categorized
CategorizeReturn(c) ==
  LET inv == invocations[c]
  IN  /\ inv.op = "categorize_lab_results"
      /\ ~inv.done
      /\ inv.pc > Len(inv.lab_data)
      /\ Advance(c, Return(inv, inv.acc))
      /\ UNCHANGED <<arguments, call, raised, result, stamped_at, clock, tables, kept>>

\* lines 147-148 and 166-209: the sentinel, or the score of the categorized
\* results the call has collected
ScoreReturn(c) ==
  LET inv == invocations[c]
  IN  /\ inv.op = "calculate_health_score"
      /\ ~inv.done
      /\ inv.pc > Len(inv.lab_data)
      /\ Advance(c, Return(inv, IF Len(inv.lab_data) = 0
                                THEN [score |-> 0, status |-> "Insufficient Data"]
                                ELSE HealthScoreOf(inv.acc)))
      /\ UNCHANGED <<arguments, call, raised, result, stamped_at, clock, tables, kept>>

\* lines 213-272: the findings
FindingsStep(c) ==
  LET inv == invocations[c]
  IN  /\ inv.op = "detect_risk_factors"
      /\ ~inv.done
      /\ inv.pc = 1
      /\ IF RiskRaises(inv.lab_data) # ""
         THEN Advance(c, Raise(inv, RiskRaises(inv.lab_data)))
         ELSE Advance(c, [inv EXCEPT !.pc = 2, !.acc = RisksBeforeAge(inv.lab_data)])
      /\ UNCHANGED <<arguments, call, raised, result, stamped_at, clock, tables, kept>>

\* lines 274-284: the age adjustment and the return
RisksReturn(c) ==
  LET inv == invocations[c]
  IN  /\ inv.op = "detect_risk_factors"
      /\ ~inv.done
      /\ inv.pc = 2
      /\ Advance(c, Return(inv, RiskReport(AgeAdjust(inv.acc, inv.patient_age))))
      /\ UNCHANGED <<arguments, call, raised, result, stamped_at, clock, tables, kept>>

InitWith(E, maxlen) ==
  /\ \E n \in 0..maxlen : lab_data \in SnapshotsOfLen(E, n)
  /\ patient_age = DefaultAge
  /\ historical_data = <<>>
  /\ patient_info = NoInfo
  /\ NotCalled
  /\ Constructed

\* The risk detector reads the snapshot by key only, so its snapshots are
\* taken in one insertion order.
InitRisk ==
  /\ \E a \in RiskOptions("hba1c"), b \in RiskOptions("ldl"),
        c \in RiskOptions("triglycerides"), e \in RiskOptions("hdl"),
        f \in RiskOptions("creatinine"), g \in RiskOptions("bmi") :
        lab_data = a \o b \o c \o e \o f \o g
  /\ patient_age \in RiskAges
  /\ historical_data = <<>>
  /\ patient_info = NoInfo
  /\ NotCalled
  /\ Constructed

InitTrend ==
  /\ lab_data = <<>>
  /\ patient_age = DefaultAge
  /\ \E n \in 0..MaxRecords : historical_data \in [1..n -> TrendRecords]
  /\ patient_info = NoInfo
  /\ NotCalled
  /\ Constructed

InitPeriod ==
  /\ lab_data = <<>>
  /\ patient_age = DefaultAge
  /\ \E n \in 0..MaxPeriodRecords : historical_data \in [1..n -> PeriodRecords]
  /\ patient_info = NoInfo
  /\ NotCalled
  /\ Constructed

\* patient_info: None, an empty dict, a dict without an age, dicts with an
\* age on either side of the age adjustment
ReportInfos ==
  {NoInfo, [given |-> TRUE, dict |-> <<>>],
   [given |-> TRUE, dict |-> <<InfoItem("name", 0)>>],
   [given |-> TRUE, dict |-> <<InfoItem("age", 60)>>],
   [given |-> TRUE, dict |-> <<InfoItem("name", 0), InfoItem("age", 61)>>]}

InitReport ==
  /\ \E n \in 0..MaxReportTests : lab_data \in SnapshotsOfLen(CoarseEntries, n)
  /\ patient_age = DefaultAge
  /\ historical_data = <<>>
  /\ patient_info \in ReportInfos
  /\ NotCalled
  /\ Constructed

\* the arguments of the runs of repeated calls: snapshots that return from
\* every operation and one on which categorize_lab_results raises, an age
\* on either side of the age adjustment, and a history too short and one
\* long enough to analyse
CallSnapshots ==
  {<<>>,
   <<Entry("hba1c", TRUE, 6500), Entry("creatinine", TRUE, 1201)>>,
   <<Entry("glucose", TRUE, 100000), Entry("wbc", TRUE, 16500)>>,
   <<Entry("ldl", TRUE, Negative), Entry("hba1c", TRUE, 5700)>>}

CallHistories ==
  {<<>>,
   <<HistoryRecord(TRUE, 1, <<Entry("glucose", TRUE, 100000)>>),
     HistoryRecord(TRUE, 2, <<Entry("glucose", TRUE, 110000)>>)>>}

InitCalls ==
  /\ lab_data \in CallSnapshots
  /\ patient_age \in {DefaultAge, MaxAge}
  /\ historical_data \in CallHistories
  /\ patient_info = NoInfo
  /\ NotCalled
  /\ Constructed

\* the most callers at a time
MaxCallers == 2

\* the calls the callers make
SharedRequests ==
  {Request(op, d, DefaultAge) :
     op \in {"categorize_lab_results", "calculate_health_score"}, d \in CallSnapshots}
  \cup {Request("detect_risk_factors", d, age) :
          d \in {<<Entry("hba1c", TRUE, 5700), Entry("creatinine", TRUE, 1201)>>,
                 <<Entry("hba1c", FALSE, 0)>>},
          age \in {DefaultAge, MaxAge}}

InitShared ==
  /\ lab_data = <<>>
  /\ patient_age = DefaultAge
  /\ historical_data = <<>>
  /\ patient_info = NoInfo
  /\ NotCalled
  /\ tables = AnalyzerTables
  /\ \E n \in 1..MaxCallers : invocations \in [1..n -> {Invoke(r) : r \in SharedRequests}]

InitFine == InitWith(FineEntries, MaxFineTests)
Init == InitWith(CoarseEntries, MaxTests)
InitOrder == InitWith(CoarseEntries, MaxOrderTests)
InitMono == InitWith(MonoEntries, MaxMonoTests)

CategorizeWidensRange ==
  LET seen(t) == {tables.reference_ranges[t].max} \cup
                 {lab_data[i].value :
                    i \in {j \in 1..Len(lab_data) :
                             lab_data[j].numeric /\ lab_data[j].test = t}}
      largest(t) == CHOOSE v \in seen(t) : \A w \in seen(t) : w <= v
  IN  /\ call' = "categorize_lab_results"
      /\ raised' = CategorizeRaises(lab_data)
      /\ result' = IF CategorizeRaises(lab_data) = "" THEN CategorizeLabResults(lab_data)
                   ELSE NoResult
      /\ stamped_at' = NoStamp
      /\ tables' = [tables EXCEPT !.reference_ranges =
                      [t \in DOMAIN tables.reference_ranges |->
                         [tables.reference_ranges[t] EXCEPT !.max = largest(t)]]]
      /\ UNCHANGED <<arguments, clock, invocations, kept>>

Categorize ==
  /\ call' = "categorize_lab_results"
  /\ raised' = CategorizeRaises(lab_data)
  /\ result' = IF CategorizeRaises(lab_data) = "" THEN CategorizeLabResults(lab_data)
               ELSE NoResult
  /\ stamped_at' = NoStamp
  /\ UNCHANGED untouched

HealthScore ==
  /\ call' = "calculate_health_score"
  /\ raised' = HealthScoreRaises(lab_data)
  /\ result' = IF HealthScoreRaises(lab_data) = "" THEN CalculateHealthScore(lab_data)
               ELSE NoResult
  /\ stamped_at' = IF HealthScoreRaises(lab_data) = "" /\ Len(lab_data) > 0
                   THEN <<clock>> ELSE NoStamp
  /\ UNCHANGED untouched

DetectRisks ==
  /\ call' = "detect_risk_factors"
  /\ raised' = RiskRaises(lab_data)
  /\ result' = IF RiskRaises(lab_data) = ""
               THEN DetectRiskFactors(lab_data, patient_age)
               ELSE NoResult
  /\ stamped_at' = IF RiskRaises(lab_data) = "" THEN <<clock>> ELSE NoStamp
  /\ UNCHANGED untouched

AnalyzeTrends ==
  /\ call' = "generate_trend_analysis"
  /\ raised' = TrendRaises(historical_data)
  /\ result' = IF TrendRaises(historical_data) = ""
               THEN GenerateTrendAnalysis(historical_data)
               ELSE NoResult
  /\ stamped_at' = IF TrendRaises(historical_data) = "" /\ ~InsufficientData(historical_data)
                   THEN <<clock>> ELSE NoStamp
  /\ UNCHANGED untouched

HealthReport ==
  /\ call' = "generate_health_report"
  /\ raised' = ReportRaises(lab_data)
  /\ result' = IF ReportRaises(lab_data) = ""
               THEN GenerateHealthReport(lab_data, patient_info)
               ELSE NoResult
  /\ stamped_at' = IF ReportRaises(lab_data) = "" THEN <<clock>> ELSE NoStamp
  /\ UNCHANGED untouched

\* the last reading of the clock in a run
MaxClock == 2

\* time passes between two calls
Tick ==
  /\ clock < MaxClock
  /\ clock' = clock + 1
  /\ UNCHANGED <<arguments, call, raised, result, stamped_at, tables, invocations, kept>>

\* what the last call gave the caller
Outcome == [raised |-> raised, result |-> result, stamped_at |-> stamped_at]

\* the caller puts the outcome of the last call aside, once per operation
Keep ==
  /\ call \in Operations
  /\ kept[call] = <<>>
  /\ kept' = [kept EXCEPT ![call] = <<Outcome>>]
  /\ UNCHANGED <<arguments, call, raised, result, stamped_at, clock, tables, invocations>>

NextFine == Categorize
Next == Categorize \/ HealthScore
NextOrder == HealthScore
NextMono == HealthScore
NextRisk == DetectRisks
NextTrend == AnalyzeTrends
NextPeriod == AnalyzeTrends
NextReport == HealthReport
NextShared ==
  \/ \E c \in DOMAIN invocations : CategorizeStep(c)
  \/ \E c \in DOMAIN invocations : CategorizeReturn(c)
  \/ \E c \in DOMAIN invocations : ScoreReturn(c)
  \/ \E c \in DOMAIN invocations : FindingsStep(c)
  \/ \E c \in DOMAIN invocations : RisksReturn(c)
NextCalls == Categorize \/ HealthScore \/ DetectRisks \/ AnalyzeTrends \/ Tick \/ Keep

SpecFine == InitFine /\ [][NextFine]_vars
Spec == Init /\ [][Next]_vars
SpecOrder == InitOrder /\ [][NextOrder]_vars
SpecMono == InitMono /\ [][NextMono]_vars
SpecRisk == InitRisk /\ [][NextRisk]_vars
SpecTrend == InitTrend /\ [][NextTrend]_vars
SpecPeriod == InitPeriod /\ [][NextPeriod]_vars
SpecReport == InitReport /\ [][NextReport]_vars
SpecCalls == InitCalls /\ [][NextCalls]_vars
SpecShared == InitShared /\ [][NextShared]_vars

Returned(op) == call = op /\ raised = ""


(***************************************************************************)
(* Properties                                                              *)
(***************************************************************************)
\* the entries of the snapshot that the categorizer reports on
Recognized(d) == SelectSeq(d, Categorizable)

InRange(e) ==
  /\ reference_ranges[e.test].min <= e.value
  /\ e.value <= reference_ranges[e.test].max

\* the deviation of an out-of-range entry exceeds th percent
DeviationAbove(e, th) ==
  LET ref == reference_ranges[e.test]
  IN  IF e.value < ref.min THEN (ref.min - e.value) * 100 > th * ref.min
      ELSE (e.value - ref.max) * 100 > th * ref.max

\* C1: in every mapping categorize_lab_results returns, the entry of each
\* recognized numeric test has status "normal" if and only if the submitted
\* value lies within [min, max] of the test's reference range, and an
\* in-range value is reported with deviation_percent 0.
C1_NormalIffInRange ==
  Returned("categorize_lab_results") =>
    LET rec == Recognized(lab_data)
    IN  /\ Len(result) = Len(rec)
        /\ \A i \in 1..Len(rec) :
             /\ result[i].test = rec[i].test
             /\ result[i].status = "normal" <=> InRange(rec[i])
             /\ InRange(rec[i]) => result[i].deviation_percent = 0

\* a value on a bound of its range was categorized, and one outside was
C1_Witness ==
  /\ Returned("categorize_lab_results")
  /\ \E i \in 1..Len(result) :
       /\ result[i].value = result[i].max_reference
       /\ result[i].status = "normal"
       /\ result[i].deviation_percent = 0

\* C2: for every out-of-range value the status is "critical" iff the
\* deviation d exceeds 30, "warning" iff 15 < d <= 30 and "borderline" iff
\* d <= 15, on the below-range and on the above-range side alike.
C2_TierThresholds ==
  Returned("categorize_lab_results") =>
    LET rec == Recognized(lab_data)
    IN  \A i \in 1..Len(rec) :
          ~InRange(rec[i]) =>
            /\ result[i].status = "critical" <=> DeviationAbove(rec[i], 30)
            /\ result[i].status = "warning" <=>
                 (DeviationAbove(rec[i], 15) /\ ~DeviationAbove(rec[i], 30))
            /\ result[i].status = "borderline" <=> ~DeviationAbove(rec[i], 15)

\* a below-range value with a deviation of exactly 30 percent came out as
\* "warning"
C2_Witness ==
  /\ Returned("categorize_lab_results")
  /\ \E i \in 1..Len(result) :
       /\ result[i].value < result[i].min_reference
       /\ (result[i].min_reference - result[i].value) * 100 = 30 * result[i].min_reference
       /\ result[i].status = "warning"

\* C3 as claimed: for every test of the table, the value min * 0.69 is
\* categorized "critical".
C3_AllTestsCritical ==
  Returned("categorize_lab_results") =>
    \A i \in 1..Len(result) :
      result[i].value = Pct(result[i].min_reference, 69) => result[i].status = "critical"

\* C3 amended: the value min * 0.69 is categorized "critical" for every test
\* whose reference minimum is greater than 0; for ldl and triglycerides
\* (minimum 0) min * 0.69 is 0, which is in range and categorized "normal".
C3_PositiveMinCritical ==
  Returned("categorize_lab_results") =>
    \A i \in 1..Len(result) :
      result[i].value = Pct(result[i].min_reference, 69) =>
        IF result[i].min_reference > 0
        THEN result[i].status = "critical" /\ result[i].deviation_percent = 3100
        ELSE result[i].status = "normal"

\* min * 0.69 of a test with a positive minimum was categorized
C3_Witness ==
  /\ Returned("categorize_lab_results")
  /\ \E i \in 1..Len(result) :
       /\ result[i].min_reference > 0
       /\ result[i].value = Pct(result[i].min_reference, 69)
       /\ result[i].status = "critical"

\* C4: categorize_lab_results completes without raising for every snapshot.
C4_NeverRaises ==
  call = "categorize_lab_results" => raised = ""

\* C5: the keys of the returned mapping are exactly the snapshot's keys that
\* have a reference range (and a numeric value), and the call behaves as it
\* does on the snapshot with the unrecognized keys removed: same entries,
\* same outcome.
C5_UnknownKeysIgnored ==
  call = "categorize_lab_results" =>
    LET known == SelectSeq(lab_data, LAMBDA e : e.test \in TestNames)
    IN  /\ raised = CategorizeRaises(known)
        /\ raised = "" =>
             /\ {result[i].test : i \in 1..Len(result)}
                  = {lab_data[i].test : i \in {j \in 1..Len(lab_data) :
                        lab_data[j].numeric /\ lab_data[j].test \in TestNames}}
             /\ Cardinality({result[i].test : i \in 1..Len(result)}) = Len(result)
             /\ result = CategorizeLabResults(known)

\* a snapshot holding a recognized and an unrecognized key was categorized
C5_Witness ==
  /\ Returned("categorize_lab_results")
  /\ Len(result) > 0
  /\ \E i \in 1..Len(lab_data) : lab_data[i].test \notin TestNames
  /\ Len(result) < Len(lab_data)

\* the points and weights of the claim, weights in tenths
ClaimPoints == [normal |-> 100, borderline |-> 70, warning |-> 40, critical |-> 10]
ClaimWeights ==
  [Metabolic |-> 3, Cardiovascular |-> 3, Renal |-> 2, Hematology |-> 1, Electrolytes |-> 1]

RECURSIVE WeightedPointsUpTo(_, _)
WeightedPointsUpTo(cats, n) ==
  IF n = 0 THEN 0
  ELSE WeightedPointsUpTo(cats, n - 1)
         + ClaimPoints[cats[n].status] * ClaimWeights[cats[n].category]

RECURSIVE WeightUsedUpTo(_, _)
WeightUsedUpTo(cats, n) ==
  IF n = 0 THEN 0 ELSE WeightUsedUpTo(cats, n - 1) + ClaimWeights[cats[n].category]

WeightedPoints(cats) == WeightedPointsUpTo(cats, Len(cats))
WeightUsed(cats) == WeightUsedUpTo(cats, Len(cats))

\* C6: for a non-empty snapshot the score is the quotient of the weighted
\* points by the weight of the categorized tests only, rounded to one
\* decimal (a tenth nearest to the quotient), and 0 when no test
\* contributed.
C6_WeightedAverage ==
  (Returned("calculate_health_score") /\ Len(lab_data) > 0) =>
    LET cats == result.category_breakdown
        P    == WeightedPoints(cats)
        W    == WeightUsed(cats)
        diff == result.score * W - 10 * P
    IN  /\ Len(cats) = Len(Recognized(lab_data))
        /\ IF Len(cats) = 0 THEN result.score = 0
           ELSE 2 * diff <= W /\ -2 * diff <= W

\* tests of two categories and two statuses were scored, one category absent
C6_Witness ==
  /\ Returned("calculate_health_score")
  /\ Len(lab_data) > 0
  /\ \E i, j \in 1..Len(result.category_breakdown) :
       /\ result.category_breakdown[i].category = "Metabolic"
       /\ result.category_breakdown[j].category = "Hematology"
       /\ result.category_breakdown[i].status = "normal"
       /\ result.category_breakdown[j].status = "warning"
  /\ result.score > 0

\* C7: on the empty snapshot calculate_health_score returns exactly
\* {score: 0, status: "Insufficient Data"}.
C7_EmptySnapshot ==
  (call = "calculate_health_score" /\ Len(lab_data) = 0) =>
    /\ raised = ""
    /\ result = [score |-> 0, status |-> "Insufficient Data"]

\* calculate_health_score was called on the empty snapshot
C7_Witness ==
  /\ Returned("calculate_health_score")
  /\ lab_data = <<>>
  /\ DOMAIN result = {"score", "status"}

\* C8: every returned score lies in [0, 100] (counted in tenths: [0, 1000]).
C8_ScoreInRange ==
  Returned("calculate_health_score") => (0 <= result.score /\ result.score <= 1000)

\* several tests were scored and the score reached the upper end
C8_Witness ==
  /\ Returned("calculate_health_score")
  /\ Len(lab_data) > 1
  /\ Len(result.category_breakdown) = Len(lab_data)
  /\ result.score = 1000

\* the four-tier label of a score counted in tenths
TierOf(score) ==
  IF score >= 850 THEN "Excellent"
  ELSE IF score >= 700 THEN "Good"
  ELSE IF score >= 500 THEN "Fair"
  ELSE "Needs Attention"

\* C9: for a non-empty snapshot the status label agrees with the score
\* returned in the same result.
C9_LabelMatchesScore ==
  (Returned("calculate_health_score") /\ Len(lab_data) > 0) =>
    result.status = TierOf(result.score)

\* the snapshot d with its entries in the order f
Reordered(d, f) == [i \in 1..Len(d) |-> d[f[i]]]

\* C10: a snapshot with the same (test, value) pairs inserted in another
\* order gets the same score and the same status label.
C10_OrderInvariant ==
  Returned("calculate_health_score") =>
    \A f \in Permutations(1..Len(lab_data)) :
      LET other == CalculateHealthScore(Reordered(lab_data, f))
      IN  other.score = result.score /\ other.status = result.status

\* the findings of the sequence rs that are about condition c
FindingsOf(rs, c) == SelectSeq(rs, LAMBDA f : f.condition = c)

Levels(rs) == {rs[i].risk_level : i \in 1..Len(rs)}

\* the most severe of a set of levels under high > moderate > low
MostSevere(ls) ==
  IF "high" \in ls THEN "high" ELSE IF "moderate" \in ls THEN "moderate" ELSE "low"

\* C11: highest_risk is the most severe level among the returned findings
\* under the precedence high > moderate > low ("low" when there is no
\* finding), and total_risks is the number of findings.
C11_HighestIsMostSevere ==
  Returned("detect_risk_factors") =>
    /\ result.total_risks = Len(result.detected_risks)
    /\ result.highest_risk = MostSevere(Levels(result.detected_risks))

\* the snapshot holds test t with a value v for which v * sign > bound * sign
\* (sign 1: above the bound, sign -1: below it).  Values are whole
\* thousandths, so "at least 5.7" is "above 5.699".
Beyond(t, bound, sign) ==
  \E i \in 1..Len(lab_data) :
    lab_data[i].test = t /\ lab_data[i].value * sign > bound * sign

\* the level at which the checks produce the finding about condition c,
\* read off the snapshot
ProducedLevel(c) ==
  IF c = "Diabetes" THEN (IF Beyond("hba1c", 6499, 1) THEN "high" ELSE "moderate")
  ELSE IF c = "Kidney Disease"
       THEN (IF Beyond("creatinine", 2000, 1) THEN "high" ELSE "moderate")
  ELSE "moderate"

\* C12 as stated: for every patient_age >= 60, exactly 60 included, every
\* finding produced at "moderate" is returned at "high".
C12_EscalatesFrom60 ==
  (Returned("detect_risk_factors") /\ patient_age >= 60) =>
    \A i \in 1..Len(result.detected_risks) :
      ProducedLevel(result.detected_risks[i].condition) = "moderate" =>
        result.detected_risks[i].risk_level = "high"

\* C12, amended: for every patient_age > 60 every finding produced at
\* "moderate" is returned at "high"; at exactly 60 it is returned at
\* "moderate".
C12_EscalatesAbove60 ==
  (Returned("detect_risk_factors") /\ patient_age >= 60) =>
    \A i \in 1..Len(result.detected_risks) :
      ProducedLevel(result.detected_risks[i].condition) = "moderate" =>
        result.detected_risks[i].risk_level =
          (IF patient_age > 60 THEN "high" ELSE "moderate")

\* a patient older than 60 with a finding produced at "moderate"
C12_Witness ==
  /\ Returned("detect_risk_factors")
  /\ patient_age > 60
  /\ \E i \in 1..Len(result.detected_risks) :
       /\ ProducedLevel(result.detected_risks[i].condition) = "moderate"
       /\ result.detected_risks[i].risk_level = "high"

\* C13: when patient_age > 60 every finding that was "moderate" after the
\* three checks is "high" in the output and carries exactly one more
\* recommendation, appended at the end; a finding that was already "high"
\* keeps its level and its recommendations; when patient_age <= 60 no
\* finding is changed.
C13_AgeAdjustment ==
  Returned("detect_risk_factors") =>
    LET before == RisksBeforeAge(lab_data)
        after == result.detected_risks
    IN  /\ Len(after) = Len(before)
        /\ \A i \in 1..Len(before) :
             IF patient_age > 60 /\ before[i].risk_level = "moderate"
             THEN /\ after[i].risk_level = "high"
                  /\ Len(after[i].recommendations) = Len(before[i].recommendations) + 1
                  /\ SubSeq(after[i].recommendations, 1, Len(before[i].recommendations))
                       = before[i].recommendations
                  /\ after[i].condition = before[i].condition
                  /\ after[i].indicators = before[i].indicators
             ELSE after[i] = before[i]

\* a patient older than 60 with one finding escalated and one that was
\* already high
C13_Witness ==
  /\ Returned("detect_risk_factors")
  /\ patient_age > 60
  /\ \E i, j \in 1..Len(result.detected_risks) :
       /\ RisksBeforeAge(lab_data)[i].risk_level = "moderate"
       /\ RisksBeforeAge(lab_data)[j].risk_level = "high"
       /\ Len(result.detected_risks[i].recommendations)
            > Len(result.detected_risks[j].recommendations)

\* C14: there is a "Diabetes" finding if and only if the snapshot holds
\* hba1c with a value >= 5.7; before the age adjustment its level is "high"
\* if and only if hba1c >= 6.5 and "moderate" otherwise.
C14_Diabetes ==
  Returned("detect_risk_factors") =>
    LET before == FindingsOf(RisksBeforeAge(lab_data), "Diabetes")
        after == FindingsOf(result.detected_risks, "Diabetes")
    IN  /\ Len(after) = (IF Beyond("hba1c", 5699, 1) THEN 1 ELSE 0)
        /\ Len(before) = Len(after)
        /\ \A i \in 1..Len(before) :
             /\ before[i].risk_level =
                  (IF Beyond("hba1c", 6499, 1) THEN "high" ELSE "moderate")
             /\ patient_age <= 60 => after[i].risk_level = before[i].risk_level

\* hba1c exactly 5.7 gave a moderate finding
C14_Witness ==
  /\ Returned("detect_risk_factors")
  /\ Has(lab_data, "hba1c") /\ Lookup(lab_data, "hba1c").value = 5700
  /\ \E i \in 1..Len(result.detected_risks) :
       /\ result.detected_risks[i].condition = "Diabetes"
       /\ result.detected_risks[i].risk_level = "moderate"

\* the labels of the cardiovascular sub-conditions that hold, in the order
\* ldl, triglycerides, hdl
CvLabelsExpected ==
  (IF Beyond("ldl", 130000, 1) THEN <<"LDL">> ELSE <<>>)
  \o (IF Beyond("triglycerides", 150000, 1) THEN <<"Triglycerides">> ELSE <<>>)
  \o (IF Beyond("hdl", 40000, -1) THEN <<"HDL">> ELSE <<>>)

\* C15: there is exactly one "Cardiovascular Disease" finding if and only
\* if at least one of ldl > 130, triglycerides > 150, hdl < 40 holds (none
\* otherwise); before the age adjustment its level is "moderate"; its
\* indicators are one entry per sub-condition that holds, in the order ldl,
\* triglycerides, hdl.
C15_Cardiovascular ==
  Returned("detect_risk_factors") =>
    LET before == FindingsOf(RisksBeforeAge(lab_data), "Cardiovascular Disease")
        after == FindingsOf(result.detected_risks, "Cardiovascular Disease")
    IN  /\ Len(after) = (IF CvLabelsExpected # <<>> THEN 1 ELSE 0)
        /\ Len(before) = Len(after)
        /\ \A i \in 1..Len(after) :
             /\ before[i].risk_level = "moderate"
             /\ patient_age <= 60 => after[i].risk_level = "moderate"
             /\ [k \in 1..Len(after[i].indicators) |-> after[i].indicators[k].label]
                  = CvLabelsExpected

\* all three sub-conditions hold and the finding lists three indicators
C15_Witness ==
  /\ Returned("detect_risk_factors")
  /\ Len(CvLabelsExpected) = 3
  /\ \E i \in 1..Len(result.detected_risks) :
       /\ result.detected_risks[i].condition = "Cardiovascular Disease"
       /\ Len(result.detected_risks[i].indicators) = 3

\* C16: there is a "Kidney Disease" finding if and only if the snapshot
\* holds creatinine with a value > 1.2 (exactly 1.2 gives none); before the
\* age adjustment its level is "moderate" if and only if creatinine <= 2.0
\* and "high" if and only if creatinine > 2.0.
C16_Kidney ==
  Returned("detect_risk_factors") =>
    LET before == FindingsOf(RisksBeforeAge(lab_data), "Kidney Disease")
        after == FindingsOf(result.detected_risks, "Kidney Disease")
    IN  /\ Len(after) = (IF Beyond("creatinine", 1200, 1) THEN 1 ELSE 0)
        /\ Len(before) = Len(after)
        /\ \A i \in 1..Len(before) :
             /\ before[i].risk_level =
                  (IF Beyond("creatinine", 2000, 1) THEN "high" ELSE "moderate")
             /\ patient_age <= 60 => after[i].risk_level = before[i].risk_level

\* creatinine exactly 2.0 gave a moderate finding
C16_Witness ==
  /\ Returned("detect_risk_factors")
  /\ Has(lab_data, "creatinine") /\ Lookup(lab_data, "creatinine").value = 2000
  /\ patient_age <= 60
  /\ \E i \in 1..Len(result.detected_risks) :
       /\ result.detected_risks[i].condition = "Kidney Disease"
       /\ result.detected_risks[i].risk_level = "moderate"

\* C17: for every history of two or more records generate_trend_analysis
\* returns a report and does not raise, also when no test has two numeric
\* observations.
C17_NeverRaises ==
  (call = "generate_trend_analysis" /\ Len(historical_data) >= 2) => raised = ""

\* C18: for a history of fewer than two records the call returns the
\* insufficient-data sentinel, which holds no trends.
C18_InsufficientData ==
  (call = "generate_trend_analysis" /\ Len(historical_data) < 2) =>
    /\ raised = ""
    /\ result = [message |-> "Insufficient historical data for trend analysis"]

\* a single record with a numeric observation got the sentinel
C18_Witness ==
  /\ call = "generate_trend_analysis"
  /\ Len(historical_data) = 1
  /\ \E j \in 1..Len(historical_data[1].fields) : historical_data[1].fields[j].numeric
  /\ raised = ""
  /\ DOMAIN result = {"message"}

\* the call returned a report with trends
TrendsReturned == Returned("generate_trend_analysis") /\ "trends" \in DOMAIN result

\* C19: in every trend of the report, direction is "stable" if and only if
\* the absolute value of the reported percent_change (counted in tenths) is
\* below 5; otherwise it is "increasing" when the reported change is
\* positive and "decreasing" when it is negative.
C19_StableIffReportedBelow5 ==
  TrendsReturned =>
    \A i \in 1..Len(result.trends) :
      LET t == result.trends[i]
      IN  t.direction =
            (IF -50 < t.percent_change /\ t.percent_change < 50 THEN "stable"
             ELSE IF t.percent_change > 0 THEN "increasing"
             ELSE "decreasing")

\* the records of h that hold a numeric observation of test t
RecordsWith(h, t) ==
  {i \in 1..Len(h) :
     \E j \in 1..Len(h[i].fields) : h[i].fields[j].test = t /\ h[i].fields[j].numeric}

\* the value record i of h holds for test t
ValueIn(h, i, t) ==
  h[i].fields[CHOOSE j \in 1..Len(h[i].fields) : h[i].fields[j].test = t].value

\* the trend of test t in the sequence trs
TrendFor(trs, t) == trs[CHOOSE k \in 1..Len(trs) : trs[k].test = t]

\* first and last of trend t are the observations that records a and b of h
\* hold
FirstLastAre(h, t, a, b) ==
  /\ t.first_value = ValueIn(h, a, t.test) /\ t.first_date = h[a].date
  /\ t.last_value = ValueIn(h, b, t.test) /\ t.last_date = h[b].date

\* every trend of the history in the order f has the first and last
\* observation that the trend of the same test has in result
SameFirstLast(f) ==
  LET other == Trends(Reordered(historical_data, f))
  IN  \A i \in 1..Len(result.trends) :
        LET t == result.trends[i]
            o == TrendFor(other, t.test)
        IN  /\ o.first_value = t.first_value /\ o.first_date = t.first_date
            /\ o.last_value = t.last_value /\ o.last_date = t.last_date

\* the reported percent_change (in tenths) of trend t is a tenth nearest to
\* (last - first) / first * 100, and it is 0 with direction "stable" when
\* first is 0
ChangeFormula(t) ==
  IF t.first_value = 0 THEN t.percent_change = 0 /\ t.direction = "stable"
  ELSE LET num == (t.last_value - t.first_value) * 100
           den == t.first_value
       IN  /\ 2 * (t.percent_change * den - 10 * num) <= den
           /\ 2 * (10 * num - t.percent_change * den) <= den

\* every observation of t's test has the smallest / largest date exactly
\* when it is the one t reports as first / last
EarliestAndLatest(h, t) ==
  \E a, b \in RecordsWith(h, t.test) :
    /\ h[a].hasdate /\ h[b].hasdate
    /\ \A i \in RecordsWith(h, t.test) :
         h[i].hasdate /\ h[a].date <= h[i].date /\ h[i].date <= h[b].date
    /\ FirstLastAre(h, t, a, b)

\* C20 as stated: the first and last observation of every trend are those
\* with the smallest and the largest date, whatever the order of the
\* records in the history; percent_change is (last - first) / first * 100,
\* and 0 with direction "stable" when first is 0.
C20_FirstLastByDate ==
  TrendsReturned =>
    /\ \A i \in 1..Len(result.trends) :
         /\ EarliestAndLatest(historical_data, result.trends[i])
         /\ ChangeFormula(result.trends[i])
    /\ \A f \in Permutations(1..Len(historical_data)) : SameFirstLast(f)

\* every record of h carries a date, and the records that hold test t carry
\* pairwise different dates
DatesDistinct(h, t) ==
  /\ \A i \in 1..Len(h) : h[i].hasdate
  /\ \A i, j \in RecordsWith(h, t) : i # j => h[i].date # h[j].date

\* C20, amended: when every record carries a date and the observations of
\* each analysed test have pairwise different dates, the first and last
\* observation of every trend are those with the smallest and the largest
\* date, whatever the order of the records; in every trend the reported
\* percent_change is (last - first) / first * 100 rounded to one decimal,
\* and 0 with direction "stable" when first is 0.
C20_FirstLastByDistinctDates ==
  TrendsReturned =>
    /\ \A i \in 1..Len(result.trends) :
         /\ DatesDistinct(historical_data, result.trends[i].test) =>
              EarliestAndLatest(historical_data, result.trends[i])
         /\ ChangeFormula(result.trends[i])
    /\ (\A i \in 1..Len(result.trends) :
          DatesDistinct(historical_data, result.trends[i].test)) =>
         \A f \in Permutations(1..Len(historical_data)) : SameFirstLast(f)

\* a history whose later record has the earlier date, with different values
C20_Witness ==
  /\ TrendsReturned
  /\ Len(historical_data) >= 2
  /\ historical_data[1].hasdate /\ historical_data[2].hasdate
  /\ historical_data[1].date > historical_data[2].date
  /\ \E i \in 1..Len(result.trends) :
       /\ DatesDistinct(historical_data, result.trends[i].test)
       /\ result.trends[i].first_value # result.trends[i].last_value
       /\ result.trends[i].first_value # 0

\* the test names that occur in a field of some record of h
NamesIn(h) ==
  UNION {{h[i].fields[j].test : j \in 1..Len(h[i].fields)} : i \in 1..Len(h)}

\* C21: the keys of trends are exactly the test names with two or more
\* numeric observations pooled over all records of the history (no key
\* twice); a test observed once gets no trend; data_points is the number of
\* pooled observations of the test.
C21_TrendsForPooledTests ==
  TrendsReturned =>
    /\ {result.trends[k].test : k \in 1..Len(result.trends)}
         = {t \in NamesIn(historical_data) :
              Cardinality(RecordsWith(historical_data, t)) >= 2}
    /\ \A j, k \in 1..Len(result.trends) :
         j # k => result.trends[j].test # result.trends[k].test
    /\ \A k \in 1..Len(result.trends) :
         result.trends[k].data_points
           = Cardinality(RecordsWith(historical_data, result.trends[k].test))
    /\ result.analyzed_tests = Len(result.trends)

\* one test was observed twice and got a trend, another was observed once
\* and got none
C21_Witness ==
  /\ TrendsReturned
  /\ Len(result.trends) = 1
  /\ \E t \in NamesIn(historical_data) :
       Cardinality(RecordsWith(historical_data, t)) = 1

\* the place of a condition in the order of the three checks
CheckOrder ==
  [c \in {"Diabetes", "Cardiovascular Disease", "Kidney Disease"} |->
     IF c = "Diabetes" THEN 1 ELSE IF c = "Cardiovascular Disease" THEN 2 ELSE 3]

\* C24: the findings are returned in the order Diabetes, Cardiovascular
\* Disease, Kidney Disease, with at most one finding per condition, so at
\* most three findings.
C24_FindingOrder ==
  Returned("detect_risk_factors") =>
    LET fs == result.detected_risks
    IN  /\ \A i \in 1..Len(fs) : fs[i].condition \in DOMAIN CheckOrder
        /\ \A i, j \in 1..Len(fs) :
             i < j => CheckOrder[fs[i].condition] < CheckOrder[fs[j].condition]
        /\ Len(fs) <= 3

\* all three findings were returned
C24_Witness ==
  /\ Returned("detect_risk_factors")
  /\ Len(result.detected_risks) = 3

\* C25: a stable trend has the neutral colour #6B7280; a trend that is not
\* stable has the adverse colour #EF4444 if and only if the test is glucose,
\* ldl or creatinine and the direction is increasing, or the test is another
\* one and the direction is decreasing; otherwise the favourable colour
\* #10B981.
C25_TrendPolarity ==
  TrendsReturned =>
    \A k \in 1..Len(result.trends) :
      LET t == result.trends[k]
          adverse == \/ t.test \in {"glucose", "ldl", "creatinine"}
                        /\ t.direction = "increasing"
                     \/ t.test \notin {"glucose", "ldl", "creatinine"}
                        /\ t.direction = "decreasing"
      IN  /\ t.direction = "stable" => t.trend_color = "#6B7280"
          /\ t.direction # "stable" =>
               t.trend_color = (IF adverse THEN "#EF4444" ELSE "#10B981")

\* a rising glucose was coloured adverse and a rising hdl favourable
C25_Witness ==
  /\ TrendsReturned
  /\ \E j, k \in 1..Len(result.trends) :
       /\ result.trends[j].test = "glucose" /\ result.trends[j].direction = "increasing"
       /\ result.trends[j].trend_color = "#EF4444"
       /\ result.trends[k].test = "hdl" /\ result.trends[k].direction = "increasing"
       /\ result.trends[k].trend_color = "#10B981"

\* C27: calculate_health_score returns the "Insufficient Data" sentinel
\* only for the empty snapshot; a non-empty snapshot without a recognized
\* test gets score 0, the label "Needs Attention" and an empty category
\* breakdown; a snapshot with a categorized test gets a score of at least
\* 10 (100 tenths).
C27_SentinelOnlyWhenEmpty ==
  Returned("calculate_health_score") =>
    /\ result.status = "Insufficient Data" <=> lab_data = <<>>
    /\ (lab_data # <<>> /\ Recognized(lab_data) = <<>>) =>
         /\ result.score = 0
         /\ result.status = "Needs Attention"
         /\ result.category_breakdown = <<>>
    /\ Recognized(lab_data) # <<>> => result.score >= 100

\* a snapshot that holds only an unrecognized key was scored
C27_Witness ==
  /\ Returned("calculate_health_score")
  /\ lab_data # <<>>
  /\ Recognized(lab_data) = <<>>
  /\ result.status = "Needs Attention"

\* the place of a status in the order normal > borderline > warning >
\* critical
StatusRank == [normal |-> 4, borderline |-> 3, warning |-> 2, critical |-> 1]

\* the status the categorizer gives entry e
StatusOf(e) ==
  RangeStatus(reference_ranges[e.test].min, reference_ranges[e.test].max, e.value)

\* the snapshot d with the value of its i-th entry replaced by v
WithValue(d, i, v) == [d EXCEPT ![i].value = v]

\* C29: when one recognized test of the snapshot is given a value of worse
\* status (normal > borderline > warning > critical) and everything else is
\* kept, the score does not rise.
C29_ScoreMonotone ==
  Returned("calculate_health_score") =>
    \A i \in 1..Len(lab_data) :
      Categorizable(lab_data[i]) =>
        \A v \in GridValues(lab_data[i].test, {}, StatusPcts) :
          LET other == WithValue(lab_data, i, v)
          IN  (/\ HealthScoreRaises(other) = ""
               /\ StatusRank[StatusOf(other[i])] < StatusRank[StatusOf(lab_data[i])])
                => CalculateHealthScore(other).score <= result.score

\* a snapshot of two scored tests, one of them not critical (so that a
\* worse value exists) and the score not the lowest
C29_Witness ==
  /\ Returned("calculate_health_score")
  /\ Len(lab_data) = 2
  /\ Len(result.category_breakdown) = 2
  /\ result.category_breakdown[1].status = "borderline"
  /\ result.category_breakdown[2].status = "warning"

\* the dates of the observations of the tests that result.trends analyses
AnalysedDates ==
  {RecordDate(historical_data, i) :
     i \in UNION {RecordsWith(historical_data, result.trends[k].test) :
                    k \in 1..Len(result.trends)}}

\* C30: the analysis_period of a returned report runs from the earliest to
\* the latest date among all observations of all analysed tests.
C30_PeriodSpansAll ==
  (TrendsReturned /\ result.trends # <<>>) =>
    /\ \A x \in AnalysedDates : result.analysis_period[1] <= x
    /\ \A x \in AnalysedDates : x <= result.analysis_period[2]
    /\ result.analysis_period[1] \in AnalysedDates
    /\ result.analysis_period[2] \in AnalysedDates

\* the test behind an indicator label
TestOfLabel ==
  [HbA1c |-> "hba1c", LDL |-> "ldl", Triglycerides |-> "triglycerides",
   HDL |-> "hdl", Creatinine |-> "creatinine"]

\* the categorizer returns for the snapshot, and gives a status other than
\* "normal" to a test that finding f lists as an indicator
BackedByCategorizer(f) ==
  /\ CategorizeRaises(lab_data) = ""
  /\ \E k \in 1..Len(f.indicators) :
       \E j \in 1..Len(CategorizeLabResults(lab_data)) :
         /\ CategorizeLabResults(lab_data)[j].test = TestOfLabel[f.indicators[k].label]
         /\ CategorizeLabResults(lab_data)[j].status # "normal"

\* C28: every finding detect_risk_factors returns is backed by the
\* categorizer: a test that triggered the finding has a status other than
\* "normal" in categorize_lab_results of the same snapshot.
C28_FindingsBacked ==
  Returned("detect_risk_factors") =>
    \A i \in 1..Len(result.detected_risks) :
      BackedByCategorizer(result.detected_risks[i])

\* the status label that goes with a tier of the overall assessment
LabelOfTier ==
  [t \in {"Excellent", "Good", "Fair", "needs attention"} |->
     IF t = "needs attention" THEN "Needs Attention" ELSE t]

\* C26: in every report the tier of overall_assessment agrees with the
\* status label of the health_score of the same report.
C26_AssessmentMatchesLabel ==
  Returned("generate_health_report") =>
    LabelOfTier[result.overall_assessment.tier] = result.health_score.status

\* the outcome of the last call is the one the caller kept of the same
\* operation, timestamp included or not
SameAsKept(with_stamp) ==
  call \in Operations /\ kept[call] # <<>> =>
    /\ kept[call][1].raised = raised
    /\ kept[call][1].result = result
    /\ with_stamp => kept[call][1].stamped_at = stamped_at

AloneRaises(inv) ==
  CASE inv.op = "categorize_lab_results" -> CategorizeRaises(inv.lab_data)
    [] inv.op = "calculate_health_score" -> HealthScoreRaises(inv.lab_data)
    [] inv.op = "detect_risk_factors" -> RiskRaises(inv.lab_data)

\* what it returns then
AloneResult(inv) ==
  CASE inv.op = "categorize_lab_results" -> CategorizeLabResults(inv.lab_data)
    [] inv.op = "calculate_health_score" -> CalculateHealthScore(inv.lab_data)
    [] inv.op = "detect_risk_factors" -> DetectRiskFactors(inv.lab_data, inv.patient_age)

====
